---- MODULE Spec2Model ----
(***************************************************************************)
(* Model of frontend/src/App.jsx: the run/result store filled by the      *)
(* per-run fetches, the chart update effect (validation, marker           *)
(* derivation, series replacement on the three panes) and the time-scale  *)
(* synchronizer of the price, trade and RSI charts.                       *)
(*                                                                         *)
(* Three specifications share the variables:                               *)
(*   Spec      run selection, fetch responses and the chart update effect  *)
(*   SpecChart the chart update effect on a rendering surface that may    *)
(*             reject any call                                             *)
(*   SpecSync  the subscribeVisibleTimeRangeChange handlers                *)
(*   SpecNorm  the derivations of the chart update effect as functions of  *)
(*             an arbitrary bounded signals / trades input                 *)
(*   SpecFormat formatMetric on every metric key and a set of values       *)
(***************************************************************************)
EXTENDS Integers, Sequences, FiniteSets, TLC

VARIABLES
    selectedRunId, signals, trades, metrics, finalPortfolioValue, error,
    inflight, signalsRun, tradesRun, nsel,
    series, seriesRef, refresh,
    range, isUpdatingTimeScale, stack, pending, last, applications, broadcasts,
    ignored,
    derived, formatted

storeVars == <<selectedRunId, signals, trades, metrics, finalPortfolioValue,
               error, inflight, signalsRun, tradesRun, nsel>>
paneVars  == <<series, seriesRef, refresh>>
syncVars  == <<range, isUpdatingTimeScale, stack, pending, last,
               applications, broadcasts, ignored>>
pureVars  == <<derived, formatted>>
vars      == <<storeVars, paneVars, syncVars, pureVars>>

(* ---------------------------------------------------------------------- *)
(* Bounds                                                                  *)
(* ---------------------------------------------------------------------- *)
MaxLen        == 2     \* longest signals / trades input of SpecNorm
MaxSelections == 2     \* run selector changes in one behaviour of Spec
MaxRange      == 2     \* distinct logical ranges a pane can show

(* ---------------------------------------------------------------------- *)
(* JavaScript values of the record fields                                  *)
(* ---------------------------------------------------------------------- *)
\* JSON values of a price / rsi field: null, the numbers 5 and 40, a
\* non-numeric string and the empty string.
Null == "null"

\* isNaN(v): ToNumber(v) is NaN.  isNaN("") is false because Number("") = 0.
isNaN(v) == v = "s_abc"

\* Number(v) for the values that are not NaN.
Number(v) == CASE v = "n5" -> 5
               [] v = "n40" -> 40
               [] v = "s_empty" -> 0
               [] v = "null" -> 0
               [] OTHER -> 0

\* Timestamp strings: unparsable, the epoch itself, and two later instants.
Timestamps == {"bad", "epoch", "t1", "t2"}

\* new Date(ts).getTime() is NaN for an unparsable string.
getTimeIsNaN(ts) == ts = "bad"

\* new Date(ts).getTime() in milliseconds, for a parsable string.
getTime(ts) == CASE ts = "epoch" -> 0
                 [] ts = "t1" -> 1000
                 [] ts = "t2" -> 2000
                 [] OTHER -> 0

\* Truthiness of new Date(ts).getTime(): NaN and 0 are falsy.
getTimeTruthy(ts) == ~getTimeIsNaN(ts) /\ getTime(ts) # 0

\* new Date(ts).getTime() / 1000
timeOf(ts) == getTime(ts) \div 1000

SignalRecords == [timestamp : Timestamps, price : {"null", "n5", "s_abc", "s_empty"},
                  rsi : {"null", "n40"}, signal : {-1, 0, 1}]

\* t.timestamp, t.action and t.reason are tested for truthiness: "" is the
\* missing / empty value of each.
TradeRecords == [timestamp : {"", "t1", "t2"}, action : {"Buy", "Sell", "Cover"},
                 reason : {"", "RSI"}, price : {"null", "n5", "s_empty"}]

(* ---------------------------------------------------------------------- *)
(* Validation and derivation of the chart update effect                    *)
(* ---------------------------------------------------------------------- *)
Map(f(_), s) == [i \in 1..Len(s) |-> f(s[i])]

priceValid(s) == s.price # Null /\ ~isNaN(s.price) /\ getTimeTruthy(s.timestamp)
pricePoint(s) == [time |-> timeOf(s.timestamp), value |-> Number(s.price)]
priceData(sigs) == Map(pricePoint, SelectSeq(sigs, priceValid))

rsiValid(s) == s.rsi # Null /\ ~isNaN(s.rsi) /\ getTimeTruthy(s.timestamp)
rsiPoint(s) == [time |-> timeOf(s.timestamp), value |-> Number(s.rsi)]
rsiData(sigs) == Map(rsiPoint, SelectSeq(sigs, rsiValid))

\* Variant of buyValid: the price of the record is not tested.
buyValid_noPrice(s) == s.signal = 1 /\ getTimeTruthy(s.timestamp)

buyValid(s) == s.signal = 1 /\ s.price # Null /\ ~isNaN(s.price)
               /\ getTimeTruthy(s.timestamp)
buyMarker(s) == [time |-> timeOf(s.timestamp), position |-> "belowBar",
                 color |-> "green", shape |-> "arrowUp", text |-> "BUY"]
buySignals(sigs) == Map(buyMarker, SelectSeq(sigs, buyValid))

\* Variant of sellValid: the price of the record is not tested.
sellValid_noPrice(s) == s.signal = -1 /\ getTimeTruthy(s.timestamp)

sellValid(s) == s.signal = -1 /\ s.price # Null /\ ~isNaN(s.price)
                /\ getTimeTruthy(s.timestamp)
sellMarker(s) == [time |-> timeOf(s.timestamp), position |-> "aboveBar",
                  color |-> "red", shape |-> "arrowDown", text |-> "SELL"]
sellSignals(sigs) == Map(sellMarker, SelectSeq(sigs, sellValid))

tradeValid(t) == t.timestamp # "" /\ t.action # "" /\ t.reason # ""
                 /\ t.price # Null /\ ~isNaN(t.price)
                 /\ getTimeTruthy(t.timestamp)
tradeMarker(t) ==
    [time |-> timeOf(t.timestamp),
     position |-> IF t.action \in {"Buy", "Cover"} THEN "belowBar" ELSE "aboveBar",
     color |-> IF t.action \in {"Buy", "Cover"} THEN "green" ELSE "red",
     shape |-> "circle",
     text |-> IF t.reason # "" THEN t.reason ELSE "Trade"]
tradeMarkers(trds) == Map(tradeMarker, SelectSeq(trds, tradeValid))

\* Array.prototype.sort with (a, b) => a.time - b.time: a stable sort by
\* time, here as insertion of each element after the elements not later.
\* Variant of InsertByTime: an element is placed before the elements of
\* equal time (a sort that is not stable).
RECURSIVE InsertByTime_unstable(_, _)
InsertByTime_unstable(m, s) ==
    IF s = <<>> THEN <<m>>
    ELSE IF s[Len(s)].time - m.time < 0 THEN Append(s, m)
    ELSE Append(InsertByTime_unstable(m, SubSeq(s, 1, Len(s) - 1)), s[Len(s)])

RECURSIVE InsertByTime(_, _)
InsertByTime(m, s) ==
    IF s = <<>> THEN <<m>>
    ELSE IF s[Len(s)].time - m.time <= 0 THEN Append(s, m)
    ELSE Append(InsertByTime(m, SubSeq(s, 1, Len(s) - 1)), s[Len(s)])

RECURSIVE sortByTime(_)
sortByTime(s) ==
    IF s = <<>> THEN <<>>
    ELSE InsertByTime(s[Len(s)], sortByTime(SubSeq(s, 1, Len(s) - 1)))

signalMarkers(sigs) == sortByTime(buySignals(sigs) \o sellSignals(sigs))

(* ---------------------------------------------------------------------- *)
(* The three chart panes and the chart update effect                       *)
(* ---------------------------------------------------------------------- *)
Panes == {"price", "trade", "rsi"}
Runs == {"R1", "R2"}
NoRun == ""

\* A line series as returned by addLineSeries: no points, no markers, no
\* price lines.  sigRun / trdRun record the runs whose signals / trades the
\* refresh that created the series was working from.
newSeries(ctx) ==
    [points |-> <<>>, markers |-> <<>>, lines |-> <<>>,
     dataSet |-> FALSE, markersSet |-> FALSE,
     sigRun |-> ctx.sigRun, trdRun |-> ctx.trdRun]

\* The series the ref of pane p points to: the one added last.
current(c, p) == c.series[p][Len(c.series[p])]

withCurrent(c, p, s) ==
    [c EXCEPT !.series[p] = [c.series[p] EXCEPT ![Len(c.series[p])] = s]]

\* Variant of removeSeries: the existing series is left on the pane.
removeSeries_keep(c, p) == c

\* if (ref.current) { chart.removeSeries(ref.current); ref.current = null; }
removeSeries(c, p) ==
    IF c.ref[p]
    THEN [c EXCEPT !.series[p] = SubSeq(c.series[p], 1, Len(c.series[p]) - 1),
                   !.ref[p] = FALSE]
    ELSE c

\* Variant of addLineSeries: the new series is not stored in the ref.
addLineSeries_noRef(c, p, ctx) ==
    [c EXCEPT !.series[p] = Append(c.series[p], newSeries(ctx))]

\* ref.current = chart.addLineSeries({...})
addLineSeries(c, p, ctx) ==
    [c EXCEPT !.series[p] = Append(c.series[p], newSeries(ctx)), !.ref[p] = TRUE]

\* ref.current.setData(data)
setData(c, p, data) ==
    withCurrent(c, p, [current(c, p) EXCEPT !.points = data, !.dataSet = TRUE])

\* ref.current.setMarkers(markers)
setMarkers(c, p, m) ==
    withCurrent(c, p, [current(c, p) EXCEPT !.markers = m, !.markersSet = TRUE])

\* ref.current.createPriceLine({ price: v, ... })
createPriceLine(c, p, v) ==
    withCurrent(c, p, [current(c, p) EXCEPT !.lines = Append(@, v)])

\* The statements of the try block, in program order.
RefreshOps ==
    << [op |-> "removeSeries",    pane |-> "price", arg |-> 0],
       [op |-> "removeSeries",    pane |-> "trade", arg |-> 0],
       [op |-> "removeSeries",    pane |-> "rsi",   arg |-> 0],
       [op |-> "checkPriceData",  pane |-> "price", arg |-> 0],
       [op |-> "addLineSeries",   pane |-> "price", arg |-> 0],
       [op |-> "setData",         pane |-> "price", arg |-> 0],
       [op |-> "setMarkers",      pane |-> "price", arg |-> 0],
       [op |-> "addLineSeries",   pane |-> "trade", arg |-> 0],
       [op |-> "setData",         pane |-> "trade", arg |-> 0],
       [op |-> "setMarkers",      pane |-> "trade", arg |-> 0],
       [op |-> "addLineSeries",   pane |-> "rsi",   arg |-> 0],
       [op |-> "setData",         pane |-> "rsi",   arg |-> 0],
       [op |-> "createPriceLine", pane |-> "rsi",   arg |-> 70],
       [op |-> "createPriceLine", pane |-> "rsi",   arg |-> 30],
       [op |-> "fitContent",      pane |-> "price", arg |-> 0],
       [op |-> "fitContent",      pane |-> "trade", arg |-> 0],
       [op |-> "fitContent",      pane |-> "rsi",   arg |-> 0] >>

\* failAt = 0: the rendering surface accepts every call of the refresh;
\* failAt = k: the call made by statement k, if it is made, throws.
FailPoints == 0..Len(RefreshOps)

\* Effect of one statement that does not throw.
applyOp(c, o, ctx) ==
    CASE o.op = "removeSeries"    -> removeSeries(c, o.pane)
      [] o.op = "addLineSeries"   -> addLineSeries(c, o.pane, ctx)
      [] o.op = "setData"         ->
            setData(c, o.pane, IF o.pane = "rsi" THEN rsiData(ctx.signals)
                                                 ELSE priceData(ctx.signals))
      [] o.op = "setMarkers"      ->
            setMarkers(c, o.pane, IF o.pane = "price" THEN signalMarkers(ctx.signals)
                                                      ELSE tradeMarkers(ctx.trades))
      [] o.op = "createPriceLine" -> createPriceLine(c, o.pane, o.arg)
      [] OTHER                    -> c

\* The exception statement k raises, "none" if it completes.
thrown(c, k, failAt, ctx) ==
    LET o == RefreshOps[k] IN
    IF o.op = "checkPriceData"
    THEN IF Len(priceData(ctx.signals)) = 0 THEN "nodata" ELSE "none"
    ELSE IF k = failAt /\ (o.op = "removeSeries" => c.ref[o.pane])
         THEN "render" ELSE "none"

RECURSIVE runOps(_, _, _, _)
runOps(c, k, failAt, ctx) ==
    IF k > Len(RefreshOps) THEN [chart |-> c, err |-> "none"]
    ELSE LET e == thrown(c, k, failAt, ctx) IN
         IF e # "none" THEN [chart |-> c, err |-> e]
         ELSE runOps(applyOp(c, RefreshOps[k], ctx), k + 1, failAt, ctx)

\* Variant of updateCharts: the try block runs for an empty signals too.
updateCharts_noGuard(c, ctx, failAt) == runOps(c, 1, failAt, ctx)

\* The chart update effect for the rendered signals and trades:
\* skipped when signals is empty, otherwise the try block, whose catch
\* turns an exception into the error message.
updateCharts(c, ctx, failAt) ==
    IF Len(ctx.signals) > 0 THEN runOps(c, 1, failAt, ctx)
    ELSE [chart |-> c, err |-> "skipped"]

ErrorValues == {"null", "signals", "trades", "metrics", "portfolio_final",
                "charts: nodata", "charts: render"}

\* The error message after the render that set it to e and the effect run r.
errorAfter(e, r) ==
    CASE r.err = "nodata" -> "charts: nodata"
      [] r.err = "render" -> "charts: render"
      [] OTHER -> e

(* ---------------------------------------------------------------------- *)
(* State after construction                                                *)
(* ---------------------------------------------------------------------- *)
NoDerived ==
    [done |-> FALSE, priceData |-> <<>>, rsiData |-> <<>>, buySignals |-> <<>>,
     sellSignals |-> <<>>, signalMarkers |-> <<>>, tradeMarkers |-> <<>>]

Endpoints == {"signals", "trades", "metrics", "portfolio_final"}

\* useState initial values; no fetch of a run has been issued.
StoreInit ==
    /\ selectedRunId = NoRun
    /\ signals = <<>>
    /\ trades = <<>>
    /\ metrics = Null
    /\ finalPortfolioValue = Null
    /\ error = Null
    /\ inflight = [r \in Runs |-> [e \in Endpoints |-> 0]]
    /\ signalsRun = NoRun
    /\ tradesRun = NoRun
    /\ nsel = 0

\* The three charts are created and the series refs are null.
PaneInit ==
    /\ series = [p \in Panes |-> <<>>]
    /\ seriesRef = [p \in Panes |-> FALSE]
    /\ refresh = [cause |-> "none", outcome |-> "none",
                  completed |-> [series |-> [p \in Panes |-> <<>>],
                                 ref |-> [p \in Panes |-> FALSE]]]

NoRange == 0
Ranges == 1..MaxRange
NoHandler == [src |-> "none", outcome |-> "none", timeRange |-> NoRange,
              applied |-> {}]

\* isUpdatingTimeScale = useRef(false); charts without data have no
\* visible logical range.
SyncInit ==
    /\ range = [p \in Panes |-> NoRange]
    /\ isUpdatingTimeScale = FALSE
    /\ stack = <<>>
    /\ pending = <<>>
    /\ last = NoHandler
    /\ applications = 0
    /\ broadcasts = 0
    /\ ignored = 0

\* No metric value has been formatted.
NoFormat == [done |-> FALSE, value |-> [kind |-> "null", n |-> 0],
             key |-> "", out |-> [kind |-> "none", prefix |-> "", n |-> 0, suffix |-> ""]]

Init == StoreInit /\ PaneInit /\ SyncInit /\ derived = NoDerived /\ formatted = NoFormat

(* ---------------------------------------------------------------------- *)
(* Run selection, fetch responses (Spec)                                   *)
(* ---------------------------------------------------------------------- *)
GoodSignals ==
    << [timestamp |-> "t1", price |-> "n5", rsi |-> "n40", signal |-> 1],
       [timestamp |-> "t2", price |-> "n5", rsi |-> "null", signal |-> -1] >>
InvalidSignals ==
    << [timestamp |-> "bad", price |-> "n5", rsi |-> "n40", signal |-> 1] >>

\* Body of the /signals/{run_id} response of each run: R1 has displayable
\* prices, R2 has none.
signalsOf(r) == IF r = "R1" THEN GoodSignals ELSE InvalidSignals

\* Body of the /trades/{run_id} response of each run.
tradesOf(r) ==
    IF r = "R1"
    THEN << [timestamp |-> "t1", action |-> "Buy", reason |-> "RSI", price |-> "n5"] >>
    ELSE << [timestamp |-> "t2", action |-> "Sell", reason |-> "RSI", price |-> "n5"] >>

chartOf == [series |-> series, ref |-> seriesRef]

\* The render after a state change, followed by the chart update effect
\* when signals or trades changed.  refresh records what caused the effect
\* to run, how it ended and the panes as the last completed run left them.
Rendered(cause, sigs, trds, sRun, tRun, e, failAt) ==
    LET ctx == [signals |-> sigs, trades |-> trds, sigRun |-> sRun, trdRun |-> tRun]
    IN \E r \in {updateCharts(chartOf, ctx, failAt)} :
       /\ signals' = sigs
       /\ trades' = trds
       /\ signalsRun' = sRun
       /\ tradesRun' = tRun
       /\ series' = r.chart.series
       /\ seriesRef' = r.chart.ref
       /\ refresh' = [cause |-> cause, outcome |-> r.err,
                      completed |-> IF r.err = "none" THEN r.chart
                                    ELSE refresh.completed]
       /\ error' = errorAfter(e, r)

\* Variant of issueFetches: the portfolio_final fetch is not issued.
issueFetches_three(r) ==
    [inflight EXCEPT ![r] = [e \in Endpoints |->
                                IF e = "portfolio_final" THEN @[e] ELSE @[e] + 1]]

issueFetches(r) == [inflight EXCEPT ![r] = [e \in Endpoints |-> @[e] + 1]]

\* onChange of the run selector: setSelectedRunId(r), then the effect on
\* [selectedRunId] if the value changed.
Select(r) ==
    /\ nsel < MaxSelections
    /\ nsel' = nsel + 1
    /\ selectedRunId' = r
    /\ IF r = selectedRunId
       THEN UNCHANGED <<signals, trades, metrics, finalPortfolioValue, error,
                        inflight, signalsRun, tradesRun, paneVars>>
       ELSE IF r # NoRun
       THEN /\ inflight' = issueFetches(r)
            /\ UNCHANGED <<signals, trades, metrics, finalPortfolioValue, error,
                           signalsRun, tradesRun, paneVars>>
       ELSE /\ metrics' = Null
            /\ finalPortfolioValue' = Null
            /\ Rendered("clear", <<>>, <<>>, NoRun, NoRun, Null, 0)
            /\ UNCHANGED inflight
    /\ UNCHANGED <<syncVars, pureVars>>

resolved(r, e) == [inflight EXCEPT ![r][e] = @ - 1]

\* .then of the signals fetch issued for run r: setSignals(data); setError(null)
SignalsOk(r, failAt) ==
    /\ inflight[r]["signals"] > 0
    /\ inflight' = resolved(r, "signals")
    /\ Rendered("signals", signalsOf(r), trades, r, tradesRun, Null, failAt)
    /\ UNCHANGED <<selectedRunId, metrics, finalPortfolioValue, nsel, syncVars, pureVars>>

\* Variant of TradesOk: the chart update effect does not run when only
\* trades changed.
TradesOk_noRefresh(r, failAt) ==
    /\ inflight[r]["trades"] > 0
    /\ inflight' = resolved(r, "trades")
    /\ trades' = tradesOf(r)
    /\ tradesRun' = r
    /\ UNCHANGED <<selectedRunId, signals, signalsRun, metrics, finalPortfolioValue,
                   error, nsel, paneVars, syncVars, pureVars>>

\* .then of the trades fetch issued for run r: setTrades(data)
TradesOk(r, failAt) ==
    /\ inflight[r]["trades"] > 0
    /\ inflight' = resolved(r, "trades")
    /\ Rendered("trades", signals, tradesOf(r), signalsRun, r, error, failAt)
    /\ UNCHANGED <<selectedRunId, metrics, finalPortfolioValue, nsel, syncVars, pureVars>>

\* .then of the metrics fetch issued for run r: setMetrics(data); setError(null)
MetricsOk(r) ==
    /\ inflight[r]["metrics"] > 0
    /\ inflight' = resolved(r, "metrics")
    /\ metrics' = r
    /\ error' = Null
    /\ UNCHANGED <<selectedRunId, signals, trades, finalPortfolioValue, signalsRun,
                   tradesRun, nsel, paneVars, syncVars, pureVars>>

\* .then of the portfolio_final fetch issued for run r:
\* setFinalPortfolioValue(data.total); setError(null)
PortfolioOk(r) ==
    /\ inflight[r]["portfolio_final"] > 0
    /\ inflight' = resolved(r, "portfolio_final")
    /\ finalPortfolioValue' = r
    /\ error' = Null
    /\ UNCHANGED <<selectedRunId, signals, trades, metrics, signalsRun,
                   tradesRun, nsel, paneVars, syncVars, pureVars>>

\* Variant of FetchFailed: the catch also resets the metrics of the store.
FetchFailed_resets(r, e) ==
    /\ inflight[r][e] > 0
    /\ inflight' = resolved(r, e)
    /\ error' = e
    /\ metrics' = Null
    /\ finalPortfolioValue' = Null
    /\ UNCHANGED <<selectedRunId, signals, trades,
                   signalsRun, tradesRun, nsel, paneVars, syncVars, pureVars>>

\* .catch of the fetch of endpoint e issued for run r: setError('Failed to fetch e')
FetchFailed(r, e) ==
    /\ inflight[r][e] > 0
    /\ inflight' = resolved(r, e)
    /\ error' = e
    /\ UNCHANGED <<selectedRunId, signals, trades, metrics, finalPortfolioValue,
                   signalsRun, tradesRun, nsel, paneVars, syncVars, pureVars>>

Next ==
    \/ \E r \in Runs \cup {NoRun} : Select(r)
    \/ \E r \in Runs : SignalsOk(r, 0)
    \/ \E r \in Runs : TradesOk(r, 0)
    \/ \E r \in Runs : MetricsOk(r)
    \/ \E r \in Runs : PortfolioOk(r)
    \/ \E r \in Runs, e \in Endpoints : FetchFailed(r, e)

Spec == Init /\ [][Next]_vars

(* ---------------------------------------------------------------------- *)
(* The chart update effect on a surface that may reject a call (SpecChart) *)
(* ---------------------------------------------------------------------- *)
\* Bodies of a signals response and of a trades response: MixedSignals has
\* a sell record without a price and a displayable buy record.
MixedSignals ==
    << [timestamp |-> "t1", price |-> "null", rsi |-> "n40", signal |-> -1],
       [timestamp |-> "t2", price |-> "n5", rsi |-> "n40", signal |-> 1] >>
SignalInputs == {<<>>, MixedSignals, InvalidSignals}
TradeInputs == {<<>>, tradesOf("R1")}

\* setSignals(data); setError(null) of a signals response, then the effect.
SetSignals(data, failAt) ==
    /\ Rendered("signals", data, trades, "R1", tradesRun, Null, failAt)
    /\ UNCHANGED <<selectedRunId, metrics, finalPortfolioValue, inflight, nsel,
                   syncVars, pureVars>>

\* setTrades(data) of a trades response, then the effect.
SetTrades(data, failAt) ==
    /\ Rendered("trades", signals, data, signalsRun, "R1", error, failAt)
    /\ UNCHANGED <<selectedRunId, metrics, finalPortfolioValue, inflight, nsel,
                   syncVars, pureVars>>

\* The clear branch of the effect on [selectedRunId], then the effect.
ClearData ==
    /\ signals # <<>> \/ trades # <<>> \/ error # Null
    /\ Rendered("clear", <<>>, <<>>, NoRun, NoRun, Null, 0)
    /\ UNCHANGED <<selectedRunId, metrics, finalPortfolioValue, inflight, nsel,
                   syncVars, pureVars>>

NextChart ==
    \/ \E d \in SignalInputs, f \in FailPoints : SetSignals(d, f)
    \/ \E d \in TradeInputs, f \in FailPoints : SetTrades(d, f)
    \/ ClearData

SpecChart == Init /\ [][NextChart]_vars

(* ---------------------------------------------------------------------- *)
(* The derivations of the effect on arbitrary bounded input (SpecNorm)     *)
(* ---------------------------------------------------------------------- *)
SeqsUpTo(S, n) == UNION {[1..k -> S] : k \in 0..n}

\* signals or trades hold an arbitrary response body of at most MaxLen records.
InitNorm ==
    /\ PaneInit /\ SyncInit
    /\ selectedRunId = "R1" /\ metrics = Null /\ finalPortfolioValue = Null
    /\ error = Null /\ inflight = [r \in Runs |-> [e \in Endpoints |-> 0]]
    /\ signalsRun = "R1" /\ tradesRun = "R1" /\ nsel = 0
    /\ \/ signals \in SeqsUpTo(SignalRecords, MaxLen) /\ trades = <<>>
       \/ signals = <<>> /\ trades \in SeqsUpTo(TradeRecords, MaxLen)
    /\ derived = NoDerived
    /\ formatted = NoFormat

\* The const declarations of the try block, from priceData to signalMarkers.
Derive ==
    /\ ~derived.done
    /\ derived' = [done |-> TRUE,
                   priceData |-> priceData(signals),
                   rsiData |-> rsiData(signals),
                   buySignals |-> buySignals(signals),
                   sellSignals |-> sellSignals(signals),
                   signalMarkers |-> signalMarkers(signals),
                   tradeMarkers |-> tradeMarkers(trades)]
    /\ UNCHANGED <<storeVars, paneVars, syncVars, formatted>>

NextNorm == Derive

SpecNorm == InitNorm /\ [][NextNorm]_vars

(* ---------------------------------------------------------------------- *)
(* Time-scale synchronization (SpecSync)                                   *)
(* ---------------------------------------------------------------------- *)
\* Variant of targets: only the first target chart is passed.
targets_firstOnly(p) == CASE p = "price" -> <<"trade">>
                          [] p = "trade" -> <<"price">>
                          [] p = "rsi"   -> <<"price">>

\* The targetCharts of the three syncTimeScales calls.
targets(p) == CASE p = "price" -> <<"trade", "rsi">>
                [] p = "trade" -> <<"price", "rsi">>
                [] p = "rsi"   -> <<"price", "trade">>

\* Variant of guardBlocks: the handler never returns at the guard.
guardBlocks_never(g) == FALSE

\* if (isUpdatingTimeScale.current) return;
guardBlocks(g) == g

\* The visible range of pane p changes to r (pan, zoom, or the time scale
\* gaining or losing its data); the surface then notifies p's subscriber.
\* The counters and last describe what this change has caused so far.
RangeChange(p, r) ==
    /\ stack = <<>> /\ pending = <<>>
    /\ r # range[p]
    /\ range' = [range EXCEPT ![p] = r]
    /\ pending' = <<p>>
    /\ last' = NoHandler
    /\ applications' = 0 /\ broadcasts' = 0 /\ ignored' = 0
    /\ UNCHANGED <<isUpdatingTimeScale, stack>>
    /\ UNCHANGED <<storeVars, paneVars, pureVars>>

\* The subscriber of the notifying pane runs and returns at the guard.
NotifyIgnored ==
    /\ pending # <<>>
    /\ guardBlocks(isUpdatingTimeScale)
    /\ pending' = Tail(pending)
    /\ ignored' = ignored + 1
    /\ last' = IF stack = <<>>
               THEN [src |-> Head(pending), outcome |-> "ignored",
                     timeRange |-> NoRange, applied |-> {}]
               ELSE last
    /\ UNCHANGED <<range, isUpdatingTimeScale, stack, applications, broadcasts>>
    /\ UNCHANGED <<storeVars, paneVars, pureVars>>

\* The subscriber of the notifying pane passes the guard, sets it and reads
\* the pane's visible logical range; a null range leaves nothing to apply.
NotifyBegin ==
    /\ pending # <<>>
    /\ ~guardBlocks(isUpdatingTimeScale)
    /\ pending' = Tail(pending)
    /\ isUpdatingTimeScale' = TRUE
    /\ LET p == Head(pending) IN
       stack' = Append(stack, [src |-> p, timeRange |-> range[p],
                               todo |-> IF range[p] # NoRange THEN targets(p) ELSE <<>>,
                               applied |-> {}])
    /\ broadcasts' = broadcasts + 1
    /\ UNCHANGED <<range, last, applications, ignored>>
    /\ UNCHANGED <<storeVars, paneVars, pureVars>>

top == stack[Len(stack)]

\* targetChart.timeScale().setVisibleLogicalRange(timeRange) succeeds; the
\* target notifies its own subscriber if its range changed.
ApplyOk ==
    /\ stack # <<>> /\ pending = <<>> /\ top.todo # <<>>
    /\ LET t == Head(top.todo) IN
       /\ range' = [range EXCEPT ![t] = top.timeRange]
       /\ pending' = IF range[t] # top.timeRange THEN <<t>> ELSE <<>>
       /\ stack' = [stack EXCEPT ![Len(stack)] =
                       [@ EXCEPT !.todo = Tail(@), !.applied = @ \cup {t}]]
    /\ applications' = applications + 1
    /\ UNCHANGED <<isUpdatingTimeScale, last, broadcasts, ignored>>
    /\ UNCHANGED <<storeVars, paneVars, pureVars>>

\* setVisibleLogicalRange throws: the exception leaves every running
\* handler; no statement after the forEach is executed.
ApplyFail ==
    /\ stack # <<>> /\ pending = <<>> /\ top.todo # <<>>
    /\ stack' = <<>>
    /\ last' = [src |-> stack[1].src, outcome |-> "threw",
                timeRange |-> stack[1].timeRange, applied |-> stack[1].applied]
    /\ UNCHANGED <<range, isUpdatingTimeScale, pending, applications, broadcasts, ignored>>
    /\ UNCHANGED <<storeVars, paneVars, pureVars>>

\* isUpdatingTimeScale.current = false; the handler returns.
HandlerEnd ==
    /\ stack # <<>> /\ pending = <<>> /\ top.todo = <<>>
    /\ isUpdatingTimeScale' = FALSE
    /\ stack' = SubSeq(stack, 1, Len(stack) - 1)
    /\ last' = IF Len(stack) = 1
               THEN [src |-> top.src, outcome |-> "returned",
                     timeRange |-> top.timeRange, applied |-> top.applied]
               ELSE last
    /\ UNCHANGED <<range, pending, applications, broadcasts, ignored>>
    /\ UNCHANGED <<storeVars, paneVars, pureVars>>

NextSync ==
    \/ \E p \in Panes, r \in Ranges \cup {NoRange} : RangeChange(p, r)
    \/ NotifyIgnored
    \/ NotifyBegin
    \/ ApplyOk
    \/ ApplyFail
    \/ HandlerEnd

SpecSync == Init /\ [][NextSync]_vars

(* ---------------------------------------------------------------------- *)
(* Metric formatting (SpecFormat)                                          *)
(* ---------------------------------------------------------------------- *)
\* The keys of metricDisplay and one key that is not declared.
MetricKeys ==
    {"final_portfolio_value", "annualized_return", "max_drawdown",
     "max_drawdown_start", "max_drawdown_end", "win_rate", "sharpe_ratio",
     "sortino_ratio", "calmar_ratio", "profit_factor", "total_trades",
     "avg_trade_duration", "other_key"}

\* Metric values: null, undefined (a key missing from the mapping) and
\* numbers, held in thousandths (12345 is 12.345).
MetricValues ==
    {[kind |-> "null", n |-> 0], [kind |-> "undefined", n |-> 0]}
        \cup {[kind |-> "number", n |-> x] : x \in {-12345, 0, 5000, 12345}}

\* Number(value).toFixed(2): the value in hundredths, half away from zero.
toFixed2(n) == IF n >= 0 THEN (n + 5) \div 10 ELSE 0 - ((5 - n) \div 10)

\* Math.round(value): the nearest integer, half towards plus infinity.
mathRound(n) == (n + 500) \div 1000

NotAvailable == [kind |-> "text", prefix |-> "N/A", n |-> 0, suffix |-> ""]

\* Variant of formatMetric: the date rule is applied before the null test.
formatMetric_dateFirst(value, key) ==
    IF key \in {"max_drawdown_start", "max_drawdown_end"}
    THEN [kind |-> "date", prefix |-> "", n |-> value.n, suffix |-> ""]
    ELSE IF value.kind \in {"null", "undefined"} THEN NotAvailable
    ELSE [kind |-> "round", prefix |-> "", n |-> mathRound(value.n), suffix |-> ""]

\* formatMetric(value, key): the display string as its parts; kind "fixed2"
\* holds the digits of toFixed(2) in hundredths, "round" an integer,
\* "date" the instant given to toLocaleString; the prefix "INR" stands
\* for the rupee sign.
formatMetric(value, key) ==
    IF value.kind \in {"null", "undefined"} THEN NotAvailable
    ELSE IF key \in {"max_drawdown_start", "max_drawdown_end"}
    THEN [kind |-> "date", prefix |-> "", n |-> value.n, suffix |-> ""]
    ELSE IF key \in {"annualized_return", "max_drawdown", "win_rate"}
    THEN [kind |-> "fixed2", prefix |-> "", n |-> toFixed2(value.n), suffix |-> "%"]
    ELSE IF key \in {"sharpe_ratio", "sortino_ratio", "calmar_ratio", "profit_factor"}
    THEN [kind |-> "fixed2", prefix |-> "", n |-> toFixed2(value.n), suffix |-> ""]
    ELSE IF key = "avg_trade_duration"
    THEN [kind |-> "fixed2", prefix |-> "", n |-> toFixed2(value.n), suffix |-> " min"]
    ELSE IF key = "final_portfolio_value"
    THEN [kind |-> "fixed2", prefix |-> "INR", n |-> toFixed2(value.n), suffix |-> ""]
    ELSE [kind |-> "round", prefix |-> "", n |-> mathRound(value.n), suffix |-> ""]

\* A table cell is about to be rendered for some key and value.
InitFormat ==
    /\ StoreInit /\ PaneInit /\ SyncInit /\ derived = NoDerived
    /\ \E v \in MetricValues, k \in MetricKeys :
          formatted = [NoFormat EXCEPT !.value = v, !.key = k]

\* formatMetric is applied to the value of the cell.
Format ==
    /\ ~formatted.done
    /\ formatted' = [formatted EXCEPT !.done = TRUE,
                                      !.out = formatMetric(formatted.value, formatted.key)]
    /\ UNCHANGED <<storeVars, paneVars, syncVars, derived>>

NextFormat == Format

SpecFormat == InitFormat /\ [][NextFormat]_vars

(* ---------------------------------------------------------------------- *)
(* Properties of the time-scale synchronizer (SpecSync)                    *)
(* ---------------------------------------------------------------------- *)
AllRangesEqual == \A p, q \in Panes : range[p] = range[q]

\* C1: whenever no range-change handler is running, the re-entrancy guard
\* isUpdatingTimeScale is false, also after a handler in which applying the
\* range to a target pane failed.
C1_GuardReleased == (stack = <<>>) => (isUpdatingTimeScale = FALSE)

\* C2 as stated: once a handler that found the guard false has ended, all
\* three panes hold the identical logical range.
C2_AllIdentical ==
    (stack = <<>> /\ pending = <<>> /\ last.outcome \in {"returned", "threw"})
        => AllRangesEqual

\* C2 amended: once a handler that found the guard false has ended, the
\* source pane and every target the range was applied to hold the range
\* the handler read; if that range is not null and the handler returned,
\* these are all three panes; if it is null nothing was applied.
C2_Propagated ==
    (stack = <<>> /\ pending = <<>> /\ last.outcome \in {"returned", "threw"})
        => /\ range[last.src] = last.timeRange
           /\ \A p \in last.applied : range[p] = last.timeRange
           /\ (last.outcome = "returned" /\ last.timeRange # NoRange)
                 => (last.applied = Panes \ {last.src} /\ AllRangesEqual)
           /\ (last.timeRange = NoRange) => (last.applied = {})

\* A handler of the rsi pane has returned after applying a range to the
\* price and trade panes.
C2_Witness ==
    /\ stack = <<>> /\ pending = <<>>
    /\ last.outcome = "returned" /\ last.src = "rsi"
    /\ last.timeRange # NoRange
    /\ last.applied = {"price", "trade"}
    /\ AllRangesEqual

\* C3: one range change of a pane starts at most one broadcast and at most
\* two range applications; the handlers notified by the targets during the
\* broadcast find the guard set and never start a broadcast of their own.
C3_NoFeedback ==
    /\ broadcasts <= 1
    /\ applications <= 2
    /\ Len(stack) <= 1
    /\ (stack # <<>> /\ pending # <<>>) => isUpdatingTimeScale

\* A broadcast has ended after both targets notified their handlers, which
\* were ignored, and the panes are quiescent again.
C3_Witness ==
    /\ stack = <<>> /\ pending = <<>>
    /\ ~isUpdatingTimeScale
    /\ broadcasts = 1 /\ applications = 2 /\ ignored = 2

(* ---------------------------------------------------------------------- *)
(* Properties of run selection and fetch responses (Spec)                  *)
(* ---------------------------------------------------------------------- *)
\* The runs whose data the store or a pane holds.
RunsShown ==
    ({signalsRun, tradesRun, metrics, finalPortfolioValue}
        \cup UNION {{series[p][i].sigRun : i \in 1..Len(series[p])} : p \in Panes}
        \cup UNION {{series[p][i].trdRun : i \in 1..Len(series[p])} : p \in Panes})
    \ {NoRun, Null}

\* C4: in no reachable state do the store and the panes hold data of two
\* different runs: the data of the previously selected run is discarded
\* before a response of the newly selected run is applied.
C4_NoMix == Cardinality(RunsShown) <= 1

\* A response of a fetch issued for run r is handled in this step.
Arrived(r) == \E e \in Endpoints : inflight'[r][e] = inflight[r][e] - 1

\* C5: a response arriving for a run that is not the selected run changes
\* neither signals, trades, metrics, finalPortfolioValue nor error.
C5_StaleDiscarded ==
    [][(\E r \in Runs : r # selectedRunId /\ Arrived(r))
          => UNCHANGED <<signals, trades, metrics, finalPortfolioValue, error>>]_vars

(* ---------------------------------------------------------------------- *)
(* Properties of the chart update effect (SpecChart)                       *)
(* ---------------------------------------------------------------------- *)
Absent(p) == series[p] = <<>> /\ ~seriesRef[p]

\* The pane holds one series with its points loaded and, for the price and
\* trade panes, its markers attached, for the rsi pane its two price lines.
FullyUpdated(p) ==
    /\ Len(series[p]) = 1
    /\ series[p][1].dataSet
    /\ (p \in {"price", "trade"}) => series[p][1].markersSet
    /\ (p = "rsi") => (series[p][1].lines = <<70, 30>>)

\* C7: after every chart refresh, failed or not, either all three panes
\* are fully updated or all three hold no series: no pane holds a series
\* without its data, markers or threshold lines, and the panes never differ.
C7_AllOrNothing ==
    \/ \A p \in Panes : FullyUpdated(p)
    \/ \A p \in Panes : Absent(p)

C9_EmptyRaises ==
    (refresh.cause = "signals" /\ signals = <<>>)
        => (refresh.outcome = "nodata" /\ error = "charts: nodata")

\* C9 amended: a step that applies an empty signals response attempts no
\* chart refresh: the panes are unchanged and the error message is null.
C9_EmptySkips ==
    [][(refresh'.cause = "signals" /\ signals' = <<>>)
          => (/\ UNCHANGED <<series, seriesRef>>
              /\ refresh'.outcome = "skipped"
              /\ error' = Null)]_vars

\* An empty signals response has been applied while the panes hold the
\* series of an earlier refresh.
C9_Witness ==
    /\ refresh.cause = "signals" /\ signals = <<>>
    /\ refresh.outcome = "skipped"
    /\ \A p \in Panes : FullyUpdated(p)
    /\ error = Null

(* ---------------------------------------------------------------------- *)
(* Properties of the derivations (SpecNorm)                                *)
(* ---------------------------------------------------------------------- *)
StrictlyIncreasing(s) == \A i \in 1..(Len(s) - 1) : s[i].time < s[i + 1].time
NonDecreasing(s) == \A i \in 1..(Len(s) - 1) : s[i].time <= s[i + 1].time

\* C6: the price series and the rsi series derived from any signals input
\* are strictly increasing in time.
C6_StrictlyIncreasing ==
    derived.done => /\ StrictlyIncreasing(derived.priceData)
                    /\ StrictlyIncreasing(derived.rsiData)

MarkerTimes == {timeOf(ts) : ts \in Timestamps}

\* Number of markers with the given text at time t.
MarkersAt(text, t) ==
    Cardinality({i \in 1..Len(derived.signalMarkers) :
                    /\ derived.signalMarkers[i].text = text
                    /\ derived.signalMarkers[i].time = t})

\* Number of records with signal sg whose timestamp parses to the instant t.
ParsedAt(sg, t) ==
    Cardinality({i \in 1..Len(signals) :
                    /\ signals[i].signal = sg
                    /\ ~getTimeIsNaN(signals[i].timestamp)
                    /\ timeOf(signals[i].timestamp) = t})

\* Number of records with signal sg, a price that is not null and converts
\* to a number, and a timestamp that parses to the instant t after the epoch.
PricedAt(sg, t) ==
    Cardinality({i \in 1..Len(signals) :
                    /\ signals[i].signal = sg
                    /\ signals[i].price # Null
                    /\ ~isNaN(signals[i].price)
                    /\ ~getTimeIsNaN(signals[i].timestamp)
                    /\ getTime(signals[i].timestamp) # 0
                    /\ timeOf(signals[i].timestamp) = t})

OnlyBuySell ==
    \A i \in 1..Len(derived.signalMarkers) :
        derived.signalMarkers[i].text \in {"BUY", "SELL"}

\* C10 as stated: one BUY marker per record with signal = 1 and one SELL
\* marker per record with signal = -1 whose timestamp parses to a valid
\* instant, no other marker, in non-decreasing time order.
C10_MarkerPerSignal ==
    derived.done =>
        /\ \A t \in MarkerTimes : /\ MarkersAt("BUY", t) = ParsedAt(1, t)
                                  /\ MarkersAt("SELL", t) = ParsedAt(-1, t)
        /\ OnlyBuySell
        /\ NonDecreasing(derived.signalMarkers)

\* C10 amended: one BUY marker per record with signal = 1 and one SELL
\* marker per record with signal = -1 among the records whose price is not
\* null and converts to a number and whose timestamp parses to an instant
\* other than the epoch, no other marker, in non-decreasing time order.
C10_MarkerPerPricedSignal ==
    derived.done =>
        /\ \A t \in MarkerTimes : /\ MarkersAt("BUY", t) = PricedAt(1, t)
                                  /\ MarkersAt("SELL", t) = PricedAt(-1, t)
        /\ OnlyBuySell
        /\ NonDecreasing(derived.signalMarkers)

\* A later BUY record precedes an earlier SELL record in the input and the
\* marker set holds the SELL marker first.
C10_Witness ==
    /\ derived.done
    /\ Len(signals) = 2
    /\ signals[1].signal = 1 /\ signals[2].signal = -1
    /\ Len(derived.signalMarkers) = 2
    /\ derived.signalMarkers[1].text = "SELL"
    /\ derived.signalMarkers[2].text = "BUY"
    /\ derived.signalMarkers[1].time < derived.signalMarkers[2].time

\* The texts of the signal markers at time t, in marker order.
MarkerTextsAt(t) ==
    LET at == SelectSeq(derived.signalMarkers, LAMBDA m : m.time = t)
    IN [i \in 1..Len(at) |-> at[i].text]

\* The texts of the markers of the records that yield a marker at time t,
\* in the order of the signals input.
RecordTextsAt(t) ==
    LET at == SelectSeq(signals, LAMBDA r : (buyValid(r) \/ sellValid(r))
                                            /\ timeOf(r.timestamp) = t)
    IN [i \in 1..Len(at) |-> IF at[i].signal = 1 THEN "BUY" ELSE "SELL"]

\* C11 as stated: signal markers of equal time are in the order in which
\* their records appear in the signals input.
C11_TiesKeepInputOrder ==
    derived.done => \A t \in MarkerTimes : MarkerTextsAt(t) = RecordTextsAt(t)

\* C11 amended: among signal markers of equal time every BUY marker
\* precedes every SELL marker, whatever the order of their records.
C11_TiesBuyFirst ==
    derived.done =>
        \A i, j \in 1..Len(derived.signalMarkers) :
            (i < j /\ derived.signalMarkers[i].time = derived.signalMarkers[j].time)
                => ~(derived.signalMarkers[i].text = "SELL"
                     /\ derived.signalMarkers[j].text = "BUY")

\* A SELL record precedes a BUY record of the same timestamp in the input
\* and the marker set holds the BUY marker first.
C11_Witness ==
    /\ derived.done
    /\ Len(signals) = 2
    /\ signals[1].signal = -1 /\ signals[2].signal = 1
    /\ signals[1].timestamp = signals[2].timestamp
    /\ Len(derived.signalMarkers) = 2
    /\ derived.signalMarkers[1].text = "BUY"
    /\ derived.signalMarkers[2].text = "SELL"

\* a is b with some elements left out.
RECURSIVE IsSubseq(_, _)
IsSubseq(a, b) ==
    IF a = <<>> THEN TRUE
    ELSE IF b = <<>> THEN FALSE
    ELSE IF Head(a) = Head(b) THEN IsSubseq(Tail(a), Tail(b))
    ELSE IsSubseq(a, Tail(b))

\* The field holds a JSON number.
IsJsonNumber(v) == v \in {"n5", "n40"}

\* The points of the records whose price is a number and whose timestamp
\* parses, each with the price of its record, in input order.
NumericPricePoints ==
    LET ok == SelectSeq(signals, LAMBDA r : IsJsonNumber(r.price)
                                            /\ ~getTimeIsNaN(r.timestamp))
    IN [i \in 1..Len(ok) |-> [time |-> timeOf(ok[i].timestamp),
                              value |-> Number(ok[i].price)]]

\* C12: every point of the price series is the point of a signal record
\* whose price is a number and whose timestamp parses, and carries that
\* price: a record with a missing or non-numeric price yields no point.
C12_OnlyNumericPrices ==
    derived.done => IsSubseq(derived.priceData, NumericPricePoints)

\* The fetch of endpoint e issued for run r settles in this step.
Settled(r, e) == inflight' = resolved(r, e) /\ inflight[r][e] > 0

\* C13: a step in which a fetch settles and the error message becomes that
\* of its endpoint changes nothing else of the store or the panes and leaves
\* the other fetches in flight; a fetch that settles without setting its
\* endpoint's error message has its data applied, whatever the error
\* message was before.
C13_FailureIsolated ==
    [][\A r \in Runs :
        /\ \A e \in Endpoints :
              (Settled(r, e) /\ error # e /\ error' = e)
                 => UNCHANGED <<selectedRunId, signals, trades, metrics,
                                finalPortfolioValue, signalsRun, tradesRun,
                                series, seriesRef>>
        /\ (Settled(r, "signals") /\ error' # "signals")
              => (signals' = signalsOf(r) /\ signalsRun' = r)
        /\ (Settled(r, "trades") /\ error # "trades" /\ error' # "trades")
              => (trades' = tradesOf(r) /\ tradesRun' = r)
        /\ (Settled(r, "metrics") /\ error' # "metrics") => metrics' = r
        /\ (Settled(r, "portfolio_final") /\ error' # "portfolio_final")
              => finalPortfolioValue' = r]_vars

\* The trades fetch of R1 has failed and the signals and metrics of R1 are
\* in the store and on the panes.
C13_Witness ==
    /\ selectedRunId = "R1"
    /\ error = "trades"
    /\ signalsRun = "R1" /\ signals = signalsOf("R1")
    /\ metrics = "R1"
    /\ trades = <<>>
    /\ \A p \in Panes : FullyUpdated(p)

\* A fetch is issued in this step.
FetchIssued == \E r \in Runs, e \in Endpoints : inflight'[r][e] > inflight[r][e]

\* One fetch per endpoint is issued for run r in this step, and no other.
FourIssuedFor(r) ==
    /\ \A e \in Endpoints : inflight'[r][e] = inflight[r][e] + 1
    /\ \A q \in Runs \ {r} : inflight'[q] = inflight[q]

\* The run selector changes in this step.
SelectorStep == nsel' = nsel + 1

\* C14 as stated: fetches are issued only by a step of the run selector,
\* and every such step that selects a run, the selected one included,
\* issues the four fetches for it.
C14_SelectAlwaysFetches ==
    [][/\ FetchIssued => SelectorStep
       /\ (SelectorStep /\ selectedRunId' \in Runs) => FourIssuedFor(selectedRunId')]_vars

\* C14 amended: fetches are issued only by a step of the run selector; a
\* step that selects a run other than the selected one issues the four
\* fetches for it, and a step that selects the selected run again, or
\* clears the selection, issues none.
C14_SelectChangeFetches ==
    [][/\ FetchIssued => SelectorStep
       /\ (SelectorStep /\ selectedRunId' \in Runs /\ selectedRunId' # selectedRunId)
             => FourIssuedFor(selectedRunId')
       /\ (SelectorStep /\ (selectedRunId' = selectedRunId \/ selectedRunId' = NoRun))
             => inflight' = inflight]_vars

\* The selector has been used twice, R1 is selected and only one set of
\* fetches has been issued, all still in flight.
C14_Witness ==
    /\ nsel = 2 /\ selectedRunId = "R1"
    /\ \A e \in Endpoints : inflight["R1"][e] = 1 /\ inflight["R2"][e] = 0
    /\ signalsRun = NoRun /\ tradesRun = NoRun
    /\ metrics = Null /\ finalPortfolioValue = Null /\ error = Null

\* C15: while no run is selected, signals and trades are empty, metrics and
\* finalPortfolioValue are absent and no pane holds a series.
C15_ClearedStaysCleared ==
    (selectedRunId = NoRun)
        => /\ signals = <<>> /\ trades = <<>>
           /\ metrics = Null /\ finalPortfolioValue = Null
           /\ \A p \in Panes : series[p] = <<>>

C17_NullIsNotAvailable ==
    (formatted.done /\ formatted.value.kind \in {"null", "undefined"})
        => (formatted.out.kind = "text" /\ formatted.out.prefix = "N/A"
            /\ formatted.out.suffix = "")

\* A null value has been formatted for a key of the date family.
C17_Witness ==
    /\ formatted.done
    /\ formatted.value.kind = "null"
    /\ formatted.key = "max_drawdown_start"
    /\ formatted.out.prefix = "N/A"

\* C18: each pane holds at most one series, after any sequence of
\* refreshes, completed or failed part-way.
C18_AtMostOneSeries == \A p \in Panes : Len(series[p]) <= 1

\* After a completed refresh, a later refresh removed the price series,
\* added a new one and failed before loading its data.
C18_Witness ==
    /\ refresh.outcome = "render"
    /\ \A p \in Panes : refresh.completed.series[p] # <<>>
    /\ Len(series["price"]) = 1
    /\ ~series["price"][1].dataSet

\* The markers of the trade records that have a timestamp, an action, a
\* non-empty reason and a number as price, each with the reason as text and
\* the position and colour of its action, in input order.
NumericTradeMarkers ==
    LET ok == SelectSeq(trades, LAMBDA t : t.timestamp # "" /\ t.action # ""
                                           /\ t.reason # "" /\ IsJsonNumber(t.price))
    IN [i \in 1..Len(ok) |->
          [time |-> timeOf(ok[i].timestamp),
           position |-> IF ok[i].action \in {"Buy", "Cover"} THEN "belowBar"
                                                              ELSE "aboveBar",
           color |-> IF ok[i].action \in {"Buy", "Cover"} THEN "green" ELSE "red",
           shape |-> "circle",
           text |-> ok[i].reason]]

\* C19: every trade marker is the marker of a trade record with a
\* timestamp, an action, a non-empty reason and a numeric price, carries
\* that reason as text and the position and colour of that action, and the
\* markers keep the order of the trades.
C19_TradeMarkersFromValid ==
    derived.done => IsSubseq(derived.tradeMarkers, NumericTradeMarkers)

\* C20: an error message set for the current selection is not cleared by
\* a response of that selection: while the first selected run is the only
\* one that has issued fetches, a step that handles one of its responses
\* with the error message set leaves an error message set.
C20_ErrorNotCleared ==
    [][(nsel = 1 /\ selectedRunId \in Runs /\ error # Null
           /\ Arrived(selectedRunId)) => error' # Null]_vars

\* The times of the points, or of the markers, of a sequence.
TimesOf(sq) == {sq[i].time : i \in 1..Len(sq)}

====
